---- MODULE Spec2Model ----
(***************************************************************************)
(* Model of the email unsubscriber (src/main.py).                          *)
(*                                                                         *)
(* Text (a Python str or bytes) is a sequence of chunks.  A chunk is an    *)
(* indivisible run of characters; the word "unsubscribe" is the two chunks *)
(* "unsub","scribe", so that a substring test across a part boundary, or   *)
(* across different casings, is decided by the search and not by the       *)
(* choice of chunks.  Markup is text too: an anchor is the chunks          *)
(* "<a href='", ..., "'>", ..., "</a>" and is found by parsing.            *)
(***************************************************************************)
EXTENDS Integers, Sequences, FiniteSets, TLC

VARIABLES
    mailbox,   \* the raw messages of the selected mailbox, oldest first
    pc,        \* position of the program
    emails,    \* connect_to_email's list `emails`
    mi,        \* 1-based position of main's loop over `emails`
    url,       \* main's local `url` (Optional[str])
    error,     \* "" or the kind of the exception that ended the run
    trace,     \* history: the steps taken so far, in order
    call       \* harness for single function calls: [fn, arg, ret]

vars == <<mailbox, pc, emails, mi, url, error, trace, call>>

-----------------------------------------------------------------------------
(* Bounds of the model.                                                    *)

MaxMsgs == 3        \* messages in the mailbox
MaxSnippets == 3    \* snippets concatenated into one generated content
MaxParts == 2       \* children of a generated multipart
MaxDepth == 2       \* nesting depth of a generated part tree

\* mail.search(...)[-100:], src/main.py:132
FETCH_LIMIT == 100

-----------------------------------------------------------------------------
(* Python library semantics the program relies on.                         *)

OpenHref == "<a href='"
HrefEnd == "'>"
OpenNoHref == "<a>"
CloseA == "</a>"

\* str.lower(), chunk by chunk
LowerChunk(c) ==
    CASE c = "Unsub" -> "unsub"
      [] c = "UNSUB" -> "unsub"
      [] c = "SCRIBE" -> "scribe"
      [] c = "Attachment" -> "attachment"
      [] c = "HTTP" -> "http"
      [] OTHER -> c

Lower(s) == [i \in 1..Len(s) |-> LowerChunk(s[i])]

\* `sub in s` for str
Contains(s, sub) ==
    \E i \in 1..(Len(s) - Len(sub) + 1) : SubSeq(s, i, i + Len(sub) - 1) = sub

RECURSIVE Concat(_)
Concat(ss) == IF ss = <<>> THEN <<>> ELSE Head(ss) \o Concat(Tail(ss))

\* sep.join(parts)
RECURSIVE Join(_, _)
Join(sep, parts) ==
    IF parts = <<>> THEN <<>>
    ELSE IF Len(parts) = 1 THEN parts[1]
    ELSE parts[1] \o sep \o Join(sep, Tail(parts))

\* bytes.decode(charset): raises LookupError for an unknown codec and
\* UnicodeDecodeError for a byte the codec cannot decode.
KnownCharsets == {"utf-8", "latin-1"}

DecodeChunk(b, charset) ==
    CASE b = "0xE9" /\ charset = "latin-1" -> "e-acute"
      [] b = "0xC3A9" /\ charset = "utf-8" -> "e-acute"
      [] b = "0xC3A9" /\ charset = "latin-1" -> "A-tilde-copyright"
      [] OTHER -> b

Decode(bytes, charset) ==
    IF charset \notin KnownCharsets
        THEN [raised |-> TRUE, val |-> <<>>]
    ELSE IF charset = "utf-8" /\ \E i \in 1..Len(bytes) : bytes[i] = "0xE9"
        THEN [raised |-> TRUE, val |-> <<>>]
    ELSE [raised |-> FALSE,
          val |-> [i \in 1..Len(bytes) |-> DecodeChunk(bytes[i], charset)]]

\* The html.parser tokenizer, restricted to <a> tags: an unterminated start
\* tag is flushed as text.
Tok(k, c, hasHref, href) == [k |-> k, c |-> c, hasHref |-> hasHref, href |-> href]

RECURSIVE Tokenize(_, _)
Tokenize(s, i) ==
    IF i > Len(s) THEN <<>>
    ELSE IF s[i] = OpenHref THEN
        LET ends == {j \in (i + 1)..Len(s) : s[j] = HrefEnd}
        IN  IF ends = {} THEN [k \in 1..(Len(s) - i + 1) |-> Tok("text", s[i + k - 1], FALSE, <<>>)]
            ELSE LET j == CHOOSE e \in ends : \A f \in ends : e <= f
                 IN  <<Tok("open", "", TRUE, SubSeq(s, i + 1, j - 1))>> \o Tokenize(s, j + 1)
    ELSE IF s[i] = OpenNoHref THEN <<Tok("open", "", FALSE, <<>>)>> \o Tokenize(s, i + 1)
    ELSE IF s[i] = CloseA THEN <<Tok("close", "", FALSE, <<>>)>> \o Tokenize(s, i + 1)
    ELSE <<Tok("text", s[i], FALSE, <<>>)>> \o Tokenize(s, i + 1)

\* Tag.text: the strings below the tag opened just before position j; nested
\* <a> tags nest, an unclosed tag extends to the end of the document.
RECURSIVE TagText(_, _, _)
TagText(t, j, depth) ==
    IF j > Len(t) THEN <<>>
    ELSE IF t[j].k = "open" THEN TagText(t, j + 1, depth + 1)
    ELSE IF t[j].k = "close" THEN
        IF depth = 1 THEN <<>> ELSE TagText(t, j + 1, depth - 1)
    ELSE <<t[j].c>> \o TagText(t, j + 1, depth)

\* BeautifulSoup(content, "html.parser").find_all("a"): the anchors in
\* document order, each with its attributes and its text.
RECURSIVE TagsFrom(_, _)
TagsFrom(t, i) ==
    IF i > Len(t) THEN <<>>
    ELSE IF t[i].k = "open"
        THEN <<[hasHref |-> t[i].hasHref, href |-> t[i].href, text |-> TagText(t, i + 1, 1)]>>
             \o TagsFrom(t, i + 1)
    ELSE TagsFrom(t, i + 1)

find_all_a(content) == TagsFrom(Tokenize(content, 1), 1)

\* email.header.decode_header: the field's words as (part, encoding) pairs.
\* Without an encoded word the field comes back as one str; with one, every
\* part is bytes, an encoded word's with its charset.
EncodedWords == {"=?utf-8?q?=C3=A9?=", "=?latin-1?q?=E9?=", "=?utf-8?q?=E9?="}

WordBytes(w) ==
    CASE w = "=?utf-8?q?=C3=A9?=" -> <<"0xC3A9">>
      [] w = "=?latin-1?q?=E9?=" -> <<"0xE9">>
      [] w = "=?utf-8?q?=E9?=" -> <<"0xE9">>
      [] OTHER -> <<w>>

WordCharset(w) ==
    CASE w = "=?utf-8?q?=C3=A9?=" -> "utf-8"
      [] w = "=?latin-1?q?=E9?=" -> "latin-1"
      [] w = "=?utf-8?q?=E9?=" -> "utf-8"
      [] OTHER -> ""

decode_header(field) ==
    IF \A i \in 1..Len(field) : field[i] \notin EncodedWords
        THEN <<[isBytes |-> FALSE, part |-> field, encoding |-> ""]>>
        ELSE [i \in 1..Len(field) |->
                [isBytes |-> TRUE, part |-> WordBytes(field[i]), encoding |-> WordCharset(field[i])]]

-----------------------------------------------------------------------------
(* The program's functions.                                                *)

NoneStr == <<"None">>

\* Message parts: a leaf (disposition header or NoneStr, charset or "",
\* payload bytes) or a multipart with its ordered children.
Leaf(disp, charset, payload) ==
    [multi |-> FALSE, parts |-> <<>>, disp |-> disp, charset |-> charset, payload |-> payload]

Multipart(parts) ==
    [multi |-> TRUE, parts |-> parts, disp |-> NoneStr, charset |-> "", payload |-> <<>>]

\* src/main.py:91, `"attachment" in content_disposition`
IsAttachment(content_disposition) == Contains(content_disposition, <<"attachment">>)

RECURSIVE get_content(_)
get_content(msg) ==
    IF msg.multi THEN
        LET parts == [i \in 1..Len(msg.parts) |-> get_content(msg.parts[i])]
        IN  IF \E i \in 1..Len(parts) : parts[i].raised
                THEN [raised |-> TRUE, val |-> <<>>]
                ELSE [raised |-> FALSE,
                      val |-> Join(<<"\n">>, [i \in 1..Len(parts) |-> parts[i].val])]
    ELSE IF ~IsAttachment(msg.disp) THEN
        IF msg.charset # "" THEN Decode(msg.payload, msg.charset)
        ELSE Decode(msg.payload, "utf-8")
    ELSE [raised |-> FALSE, val |-> <<>>]

decode_field(field) ==
    LET decoded_header == decode_header(field)
        field_parts == [i \in 1..Len(decoded_header) |->
            IF decoded_header[i].isBytes
                THEN Decode(decoded_header[i].part,
                            IF decoded_header[i].encoding # "" THEN decoded_header[i].encoding
                            ELSE "utf-8")
                ELSE [raised |-> FALSE, val |-> decoded_header[i].part]]
    IN  IF \E i \in 1..Len(field_parts) : field_parts[i].raised
            THEN [raised |-> TRUE, val |-> <<>>]
            ELSE [raised |-> FALSE,
                  val |-> Concat([i \in 1..Len(field_parts) |-> field_parts[i].val])]

Email(subject, content, from_address) ==
    [subject |-> subject, content |-> content, from_address |-> from_address]

analyze_email_case_sensitive(email_msg) ==
    [is_unwanted |-> Contains(email_msg.content, <<"unsub", "scribe">>)]

analyze_email(email_msg) ==
    [is_unwanted |-> Contains(Lower(email_msg.content), <<"unsub", "scribe">>)]

\* src/main.py:175, the loop's test: "raise" is the KeyError of a_tag["href"]
a_tag_test_text_only(a_tag) ==
    IF Contains(Lower(a_tag.text), <<"unsub", "scribe">>)
        THEN IF ~a_tag.hasHref THEN "raise" ELSE "append"
        ELSE "skip"

a_tag_test(a_tag) ==
    IF Contains(Lower(a_tag.text), <<"unsub", "scribe">>)
        THEN IF ~a_tag.hasHref THEN "raise"
             ELSE IF Contains(a_tag.href, <<"http">>) THEN "append" ELSE "skip"
        ELSE "skip"

\* src/main.py:172-176: the list built by the loop, or the exception
RECURSIVE unsubscribe_links(_, _, _)
unsubscribe_links(tags, i, links) ==
    IF i > Len(tags) THEN [raised |-> FALSE, links |-> links]
    ELSE LET t == a_tag_test(tags[i])
         IN  IF t = "raise" THEN [raised |-> TRUE, links |-> <<>>]
             ELSE IF t = "append" THEN unsubscribe_links(tags, i + 1, Append(links, tags[i].href))
             ELSE unsubscribe_links(tags, i + 1, links)

None == [some |-> FALSE, val |-> <<>>]
Some(v) == [some |-> TRUE, val |-> v]

get_unsubscribe_url_first(email_content) ==
    LET r == unsubscribe_links(find_all_a(email_content.content), 1, <<>>)
    IN  IF r.raised THEN [raised |-> TRUE, val |-> None]
        ELSE IF Len(r.links) > 0 THEN [raised |-> FALSE, val |-> Some(r.links[1])]
        ELSE [raised |-> FALSE, val |-> None]

get_unsubscribe_url(email_content) ==
    LET r == unsubscribe_links(find_all_a(email_content.content), 1, <<>>)
    IN  IF r.raised THEN [raised |-> TRUE, val |-> None]
        ELSE IF Len(r.links) > 0 THEN [raised |-> FALSE, val |-> Some(r.links[Len(r.links)])]
        ELSE [raised |-> FALSE, val |-> None]

-----------------------------------------------------------------------------
(* Contents and messages the model runs on.                                *)

\* <a href='http://a'>Unsubscribe</a>
S_link_a == <<OpenHref, "http", "://a", HrefEnd, "Unsub", "scribe", CloseA>>
\* <a href='https://b'>click UNSUBSCRIBE</a>
S_link_b == <<OpenHref, "http", "s", "://b", HrefEnd, "click", "UNSUB", "SCRIBE", CloseA>>
\* <a href='http://d/unsubscribe'>click</a>
S_decoy == <<OpenHref, "http", "://d/", "unsub", "scribe", HrefEnd, "click", CloseA>>
\* <a href='/rel'>unsubscribe</a>
S_relative == <<OpenHref, "/rel", HrefEnd, "unsub", "scribe", CloseA>>
\* <a>unsubscribe</a>
S_nohref == <<OpenNoHref, "unsub", "scribe", CloseA>>
\* <a>click</a>
S_nohref_plain == <<OpenNoHref, "click", CloseA>>
\* <a href='http://c'>unsub     (not closed)
S_unclosed == <<OpenHref, "http", "://c", HrefEnd, "unsub">>
\* scribe</a>
S_tail == <<"scribe", CloseA>>
S_text == <<"click">>
S_text_unsub == <<"UNSUB", "scribe">>

Snippets ==
    {S_link_a, S_link_b, S_decoy, S_relative, S_nohref, S_nohref_plain,
     S_unclosed, S_tail, S_text, S_text_unsub}

RECURSIVE SeqsUpTo(_, _)
SeqsUpTo(S, n) ==
    IF n = 0 THEN {<<>>}
    ELSE LET shorter == SeqsUpTo(S, n - 1)
         IN  shorter \cup {Append(q, x) : q \in shorter, x \in S}

\* The contents get_unsubscribe_url and analyze_email are called on.
Contents == {Concat(q) : q \in SeqsUpTo(Snippets, MaxSnippets)}

Fields == {<<"hi">>, <<"=?utf-8?q?=C3=A9?=", "shop">>}

\* The part trees get_content is called on.
Dispositions ==
    {NoneStr, <<"inline">>, <<"attachment", "; filename=", "a.txt">>,
     <<"Attachment", "; filename=", "a.txt">>,
     <<"inline", "; filename=", "attachment", ".txt">>}

Leaves ==
    {Leaf(d, "utf-8", <<"click">>) : d \in Dispositions}
    \cup {Leaf(NoneStr, "", <<"unsub">>), Leaf(NoneStr, "", <<"scribe">>),
          Leaf(NoneStr, "latin-1", <<"0xE9">>), Leaf(NoneStr, "utf-8", <<"0xE9">>),
          Leaf(NoneStr, "x-unknown", <<"click">>),
          Leaf(<<"attachment">>, "utf-8", <<"0xE9">>)}

RECURSIVE Trees(_)
Trees(depth) ==
    IF depth = 0 THEN Leaves
    ELSE LET below == Trees(depth - 1)
         IN  below \cup {Multipart(q) : q \in SeqsUpTo(below, MaxParts)}

\* The messages of the mailbox.
RawMessage(subject, from, body) == [subject |-> subject, from |-> from, body |-> body]

M_plain == RawMessage(<<"hi">>, <<"ann">>, Leaf(NoneStr, "utf-8", S_text))
M_link ==
    RawMessage(<<"=?utf-8?q?=C3=A9?=", "shop">>, <<"shop">>,
               Multipart(<<Leaf(NoneStr, "utf-8", S_text), Leaf(NoneStr, "", S_decoy \o S_link_a)>>))
M_nolink == RawMessage(<<"news">>, <<"news">>, Leaf(<<"inline">>, "latin-1", S_text_unsub \o S_relative))
M_nohref == RawMessage(<<"deal">>, <<"deal">>, Leaf(NoneStr, "utf-8", S_nohref))
M_undecodable ==
    RawMessage(<<"hi">>, <<"bob">>,
               Multipart(<<Leaf(NoneStr, "utf-8", S_link_a), Leaf(NoneStr, "utf-8", <<"0xE9">>)>>))
M_attachment ==
    RawMessage(<<"hi">>, <<"cat">>,
               Multipart(<<Leaf(<<"attachment", "; filename=", "a.txt">>, "utf-8", S_link_a),
                           Leaf(NoneStr, "utf-8", S_text)>>))

Messages == {M_plain, M_link, M_nolink, M_nohref, M_undecodable, M_attachment}

-----------------------------------------------------------------------------
(* connect_to_email and main, step by step.                                *)

Idle == [fn |-> "", arg |-> <<>>, ret |-> <<>>]

Step(step, msg, out) == [step |-> step, msg |-> msg, out |-> out]

LastN(s, n) == IF Len(s) <= n THEN s ELSE SubSeq(s, Len(s) - n + 1, Len(s))

Reversed(s) == [i \in 1..Len(s) |-> s[Len(s) + 1 - i]]

email_ids_newest_first == Reversed(LastN([i \in 1..Len(mailbox) |-> i], FETCH_LIMIT))

\* data[0].split()[-100:], as positions in the mailbox
email_ids == LastN([i \in 1..Len(mailbox) |-> i], FETCH_LIMIT)

Init ==
    /\ mailbox \in SeqsUpTo(Messages, MaxMsgs)
    /\ pc = "connect"
    /\ emails = <<>>
    /\ mi = 0
    /\ url = None
    /\ error = ""
    /\ trace = <<>>
    /\ call = Idle

Raise(kind) ==
    /\ pc' = "crashed"
    /\ error' = kind

\* IMAP4_SSL(...), login, select, search: lines 126-133
Connect ==
    /\ pc = "connect"
    /\ \E ok \in BOOLEAN :
        IF ok THEN pc' = "fetch_loop" /\ error' = error
        ELSE Raise("MailSessionError")
    /\ UNCHANGED <<mailbox, emails, mi, url, trace, call>>

\* lines 134-138: the next id is fetched and parsed
Fetch ==
    /\ pc = "fetch_loop"
    /\ Len(emails) < Len(email_ids)
    /\ pc' = "build_email"
    /\ trace' = Append(trace, Step("fetch", email_ids[Len(emails) + 1], "ok"))
    /\ UNCHANGED <<mailbox, emails, mi, url, error, call>>

\* lines 139-147: headers decoded, content extracted, Email appended
BuildEmail ==
    /\ pc = "build_email"
    /\ LET e_id == email_ids[Len(emails) + 1]
           msg == mailbox[e_id]
           decoded_subj == decode_field(msg.subject)
           decoded_from == decode_field(msg.from)
           content == get_content(msg.body)
       IN  IF decoded_subj.raised \/ decoded_from.raised
               THEN /\ Raise("HeaderDecodeError")
                    /\ UNCHANGED <<emails, trace>>
           ELSE IF content.raised
               THEN /\ Raise("PartDecodeError")
                    /\ trace' = Append(trace, Step("content", e_id, "raised"))
                    /\ UNCHANGED emails
           ELSE /\ emails' = Append(emails, Email(decoded_subj.val, content.val, decoded_from.val))
                /\ trace' = Append(trace, Step("content", e_id, "ok"))
                /\ pc' = "fetch_loop"
                /\ error' = error
    /\ UNCHANGED <<mailbox, mi, url, call>>

\* lines 148-149 and 223: the loop is over, logout, back in main
Logout ==
    /\ pc = "fetch_loop"
    /\ Len(emails) = Len(email_ids)
    /\ pc' = "main_loop"
    /\ mi' = 1
    /\ UNCHANGED <<mailbox, emails, url, error, trace, call>>

\* line 228
is_unwanted_branch_always(result) == TRUE

is_unwanted_branch(result) == result.is_unwanted

\* lines 225-229: the next email is analysed
Analyze ==
    /\ pc = "main_loop"
    /\ mi <= Len(emails)
    /\ LET result == analyze_email(emails[mi])
           step == Step("classify", email_ids[mi], IF result.is_unwanted THEN "unwanted" ELSE "wanted")
       IN  IF is_unwanted_branch(result)
               THEN /\ pc' = "get_url"
                    /\ trace' = Append(trace, step)
                    /\ mi' = mi
               ELSE /\ pc' = "main_loop"
                    /\ trace' = trace \o <<step, Step("done", email_ids[mi], "")>>
                    /\ mi' = mi + 1
    /\ UNCHANGED <<mailbox, emails, url, error, call>>

\* lines 230-231
GetUrl ==
    /\ pc = "get_url"
    /\ LET r == get_unsubscribe_url(emails[mi])
       IN  IF r.raised
               THEN /\ Raise("KeyError")
                    /\ trace' = Append(trace, Step("link", email_ids[mi], "raised"))
                    /\ UNCHANGED <<url, mi>>
           ELSE IF r.val # None
               THEN /\ pc' = "unsubscribe"
                    /\ url' = r.val
                    /\ trace' = Append(trace, Step("link", email_ids[mi], "url"))
                    /\ UNCHANGED <<error, mi>>
           ELSE /\ pc' = "main_loop"
                /\ url' = r.val
                /\ mi' = mi + 1
                /\ trace' = trace \o <<Step("link", email_ids[mi], "none"),
                                       Step("done", email_ids[mi], "")>>
                /\ UNCHANGED error
    /\ UNCHANGED <<mailbox, emails, call>>

\* lines 232-235: whether an exception of the agent call leaves the try
try_unsubscribe_uncaught(agent_raises) == agent_raises

try_unsubscribe(agent_raises) == FALSE

\* lines 232-235: the agent is run on url
UnsubscribeFromEmail ==
    /\ pc = "unsubscribe"
    /\ \E agent_raises \in BOOLEAN :
        LET step == Step("dispatch", email_ids[mi], IF agent_raises THEN "raised" ELSE "ok")
        IN  IF try_unsubscribe(agent_raises)
                THEN /\ Raise("UnsubscribeDispatchError")
                     /\ trace' = Append(trace, step)
                     /\ mi' = mi
                ELSE /\ pc' = "main_loop"
                     /\ mi' = mi + 1
                     /\ trace' = trace \o <<step, Step("done", email_ids[mi], "")>>
                     /\ error' = error
    /\ UNCHANGED <<mailbox, emails, url, call>>

\* line 225: the loop is over
Finish ==
    /\ pc = "main_loop"
    /\ mi > Len(emails)
    /\ pc' = "done"
    /\ UNCHANGED <<mailbox, emails, mi, url, error, trace, call>>

Next == Connect \/ Fetch \/ BuildEmail \/ Logout \/ Analyze \/ GetUrl \/ UnsubscribeFromEmail \/ Finish

Spec == Init /\ [][Next]_vars

-----------------------------------------------------------------------------
(* Single calls of the pure functions, on generated arguments.             *)

Called(fn, ret) ==
    /\ call' = [fn |-> fn, arg |-> call.arg, ret |-> ret]
    /\ pc' = "returned"
    /\ UNCHANGED <<mailbox, emails, mi, url, error, trace>>

InitCall(args, at) ==
    /\ mailbox = <<>>
    /\ pc = at
    /\ emails = <<>>
    /\ mi = 0
    /\ url = None
    /\ error = ""
    /\ trace = <<>>
    /\ call \in {[fn |-> "", arg |-> a, ret |-> <<>>] : a \in args}

InitLink == InitCall({Email(s, c, s) : s \in Fields, c \in Contents}, "call_email")

CallAnalyzeEmail ==
    /\ pc = "call_email"
    /\ Called("analyze_email", analyze_email(call.arg))

CallGetUnsubscribeUrl ==
    /\ pc = "call_email"
    /\ Called("get_unsubscribe_url", get_unsubscribe_url(call.arg))

NextLink == CallAnalyzeEmail \/ CallGetUnsubscribeUrl

SpecLink == InitLink /\ [][NextLink]_vars

InitContent == InitCall(Trees(MaxDepth), "call_message")

CallGetContent ==
    /\ pc = "call_message"
    /\ Called("get_content", get_content(call.arg))

NextContent == CallGetContent

SpecContent == InitContent /\ [][NextContent]_vars

-----------------------------------------------------------------------------
(* What the claims speak of, stated without the program's own functions.   *)

\* The text contains "unsubscribe" in some casing.
MentionsUnsubscribe(s) ==
    \E i \in 1..(Len(s) - 1) :
        /\ s[i] \in {"unsub", "Unsub", "UNSUB"}
        /\ s[i + 1] \in {"scribe", "SCRIBE"}

\* An anchor qualifies: unsubscribe in its text, "http" in its link target.
Qualifies(a) ==
    /\ MentionsUnsubscribe(a.text)
    /\ a.hasHref
    /\ \E i \in 1..Len(a.href) : a.href[i] = "http"

\* An anchor with the unsubscribe text and no link target at all.
LacksTarget(a) == MentionsUnsubscribe(a.text) /\ ~a.hasHref

Anchors == find_all_a(call.arg.content)

QualifyingAt == {i \in 1..Len(Anchors) : Qualifies(Anchors[i])}

LastQualifying == CHOOSE i \in QualifyingAt : \A j \in QualifyingAt : j <= i

SomeLacksTarget == \E i \in 1..Len(Anchors) : LacksTarget(Anchors[i])

Returned(fn) == pc = "returned" /\ call.fn = fn

\* Steps of the history.
At(p, step, out) == trace[p].step = step /\ trace[p].out = out

Positions == 1..Len(trace)

HasStep(step, m) == \E p \in Positions : trace[p].step = step /\ trace[p].msg = m

Batch == {email_ids[k] : k \in 1..Len(email_ids)}

PositionOf(m) == CHOOSE k \in 1..Len(email_ids) : email_ids[k] = m

Stopped == pc \in {"done", "crashed"}

-----------------------------------------------------------------------------
(* C1: link extraction is attempted only for a message flagged unwanted,   *)
(* the agent is run only for a message that was flagged unwanted and for   *)
(* which link extraction returned a URL, and a message whose content does  *)
(* not mention "unsubscribe" goes from classification directly to Done,    *)
(* with neither a link extraction nor a dispatch.                          *)
C1_Gating ==
    /\ \A p \in Positions :
        /\ trace[p].step = "link" =>
            \E q \in 1..(p - 1) : trace[q] = Step("classify", trace[p].msg, "unwanted")
        /\ trace[p].step = "dispatch" =>
            /\ \E q \in 1..(p - 1) : trace[q] = Step("classify", trace[p].msg, "unwanted")
            /\ \E q \in 1..(p - 1) : trace[q] = Step("link", trace[p].msg, "url")
        /\ At(p, "classify", "wanted") =>
            /\ p < Len(trace)
            /\ trace[p + 1] = Step("done", trace[p].msg, "")
    /\ \A k \in 1..Len(emails) :
        ~MentionsUnsubscribe(emails[k].content) =>
            /\ ~HasStep("link", email_ids[k])
            /\ ~HasStep("dispatch", email_ids[k])
            /\ k < mi => HasStep("done", email_ids[k])

C1_Witness ==
    /\ pc = "done"
    /\ \E p \in Positions : At(p, "classify", "wanted")
    /\ \E p \in Positions : At(p, "link", "none")
    /\ \E p \in Positions : trace[p].step = "dispatch"

C3_DecodeFailureIsolated ==
    \A p \in Positions :
        At(p, "content", "raised") /\ Stopped =>
            \A m \in Batch \ {trace[p].msg} : HasStep("classify", m) /\ HasStep("done", m)

(* C4: when link extraction raises for a message (an unsubscribe anchor    *)
(* without href), the orchestrator catches it: the message is skipped to   *)
(* Done without a dispatch and the remaining messages are processed.       *)
C4_MissingHrefCaught ==
    \A p \in Positions :
        At(p, "link", "raised") =>
            /\ error # "KeyError"
            /\ ~HasStep("dispatch", trace[p].msg)
            /\ Stopped => \A m \in Batch : HasStep("classify", m) /\ HasStep("done", m)

(* C10 as stated: for messages i < j every step of i comes before every    *)
(* step of j.                                                              *)
C10_StrictlySequential ==
    \A p, q \in Positions : p < q => trace[p].msg <= trace[q].msg

Phase(step) == IF step \in {"fetch", "content"} THEN 1 ELSE 2

Rank(step) ==
    CASE step = "fetch" -> 1 [] step = "content" -> 2 [] step = "classify" -> 3
      [] step = "link" -> 4 [] step = "dispatch" -> 5 [] OTHER -> 6

(* C10 amended: the run has two phases.  Every message is fetched and its  *)
(* content extracted, in batch order, before any message is classified;    *)
(* then the messages are classified, link-extracted and dispatched in      *)
(* batch order.  Within a phase every step of message i comes before any   *)
(* step of message j > i, and the steps of one message are in pipeline     *)
(* order.                                                                  *)
C10_TwoPhaseSequential ==
    \A p, q \in Positions :
        p < q =>
            /\ Phase(trace[p].step) <= Phase(trace[q].step)
            /\ Phase(trace[p].step) = Phase(trace[q].step) => trace[p].msg <= trace[q].msg
            /\ trace[p].msg = trace[q].msg => Rank(trace[p].step) < Rank(trace[q].step)

C10_Witness ==
    /\ pc = "done"
    /\ Len(emails) >= 2
    /\ \E p, q \in Positions :
        /\ p < q
        /\ trace[p].step = "content" /\ trace[p].msg = 2
        /\ trace[q].step = "dispatch" /\ trace[q].msg = 1

(* C5 as stated: get_unsubscribe_url returns the link target of the last   *)
(* qualifying anchor, whatever other anchors the content holds.            *)
C5_LastQualifyingAnchor ==
    Returned("get_unsubscribe_url") /\ QualifyingAt # {} =>
        /\ ~call.ret.raised
        /\ call.ret.val = Some(Anchors[LastQualifying].href)

(* C5 amended: when no anchor with the unsubscribe text lacks a link        *)
(* target, get_unsubscribe_url returns the link target of the last          *)
(* qualifying anchor in document order (of the only one, when there is     *)
(* one), whatever non-qualifying anchors stand before or after it.         *)
C5_LastQualifyingAnchorUnlessMissingHref ==
    Returned("get_unsubscribe_url") /\ QualifyingAt # {} /\ ~SomeLacksTarget =>
        /\ ~call.ret.raised
        /\ call.ret.val = Some(Anchors[LastQualifying].href)

C5_Witness ==
    /\ Returned("get_unsubscribe_url")
    /\ ~SomeLacksTarget
    /\ Cardinality(QualifyingAt) >= 2
    /\ LastQualifying < Len(Anchors)
    /\ \E i \in QualifyingAt : Anchors[i].href # Anchors[LastQualifying].href
    /\ call.ret.val = Some(Anchors[LastQualifying].href)

(* C6 as stated: with zero qualifying anchors get_unsubscribe_url returns  *)
(* None and never raises, also when an unsubscribe anchor has no link      *)
(* target.                                                                 *)
C6_NoneWithoutQualifyingAnchor ==
    Returned("get_unsubscribe_url") /\ QualifyingAt = {} =>
        /\ ~call.ret.raised
        /\ call.ret.val = None

(* C6 amended: with zero qualifying anchors get_unsubscribe_url returns    *)
(* None and no error when every anchor with the unsubscribe text has a     *)
(* link target (relative targets included); when some anchor with the      *)
(* unsubscribe text has no link target it raises.                          *)
C6_NoneOrKeyError ==
    Returned("get_unsubscribe_url") =>
        /\ call.ret.raised = SomeLacksTarget
        /\ QualifyingAt = {} /\ ~SomeLacksTarget => call.ret.val = None

C6_Witness ==
    /\ Returned("get_unsubscribe_url")
    /\ QualifyingAt = {}
    /\ \E i \in 1..Len(Anchors) :
        MentionsUnsubscribe(Anchors[i].text) /\ Anchors[i].hasHref
    /\ ~call.ret.raised
    /\ call.ret.val = None

(* C8: analyze_email flags a message exactly when its content, compared    *)
(* without regard to case, contains "unsubscribe"; subject and sender play *)
(* no part.                                                                *)
C8_UnwantedIffMentionsUnsubscribe ==
    Returned("analyze_email") =>
        call.ret.is_unwanted = MentionsUnsubscribe(call.arg.content)

C8_Witness ==
    /\ Returned("analyze_email")
    /\ call.ret.is_unwanted
    /\ ~Contains(call.arg.content, <<"unsub", "scribe">>)
    /\ ~MentionsUnsubscribe(call.arg.subject)

\* The disposition type of a Content-Disposition value is an attachment
\* (the type is the first token, compared without regard to case).
AttachmentDisposition(disp) == disp # <<>> /\ disp[1] \in {"attachment", "Attachment"}

DecodedText(leaf) == Decode(leaf.payload, IF leaf.charset = "" THEN "utf-8" ELSE leaf.charset)

RECURSIVE AllDecodable(_)
AllDecodable(msg) ==
    IF msg.multi THEN \A i \in 1..Len(msg.parts) : AllDecodable(msg.parts[i])
    ELSE AttachmentDisposition(msg.disp) \/ ~DecodedText(msg).raised

\* The flattening the claims describe: attachments and undecodable parts
\* contribute the empty string.
RECURSIVE Flattened(_)
Flattened(msg) ==
    IF msg.multi THEN Join(<<"\n">>, [i \in 1..Len(msg.parts) |-> Flattened(msg.parts[i])])
    ELSE IF AttachmentDisposition(msg.disp) \/ DecodedText(msg).raised THEN <<>>
    ELSE DecodedText(msg).val

(* C7: on a part tree whose text leaves decode, get_content returns the    *)
(* depth-first newline-join of the leaves' contributions: the empty string *)
(* for a leaf whose disposition is an attachment, the decoded text for any *)
(* other leaf.                                                             *)
C7_FlattenedWithoutAttachments ==
    Returned("get_content") /\ AllDecodable(call.arg) =>
        /\ ~call.ret.raised
        /\ call.ret.val = Flattened(call.arg)

\* A multipart with a text part that fails to decode beside a text part
\* that decodes.
HasFailingPartAndSibling(msg) ==
    /\ msg.multi
    /\ \E i, j \in 1..Len(msg.parts) :
        /\ i # j
        /\ ~msg.parts[i].multi /\ ~AttachmentDisposition(msg.parts[i].disp)
        /\ DecodedText(msg.parts[i]).raised
        /\ ~msg.parts[j].multi /\ ~AttachmentDisposition(msg.parts[j].disp)
        /\ ~DecodedText(msg.parts[j]).raised

(* C9: a part that fails to decode contributes the empty string, its       *)
(* siblings contribute their text in order, and get_content succeeds.      *)
C9_PartDecodeErrorIsolated ==
    Returned("get_content") /\ HasFailingPartAndSibling(call.arg) =>
        /\ ~call.ret.raised
        /\ call.ret.val = Flattened(call.arg)

====
